---- MODULE Spec2Model ----
(***************************************************************************)
(* Model of contains-snippet: the matcher (matcher.py: raw_match,          *)
(* commented_match, check_file) and the command line driver (cli.py:       *)
(* parse_prefix_map, main).                                                *)
(*                                                                         *)
(* A Python str is a sequence of one-character strings, so "#a" is         *)
(* <<"#", "a">> and "" is <<>>.  An optional value (str | None) is a       *)
(* sequence of length at most one: None is <<>> and the string s is <<s>>. *)
(* A dict is a function whose DOMAIN is its key set.                       *)
(***************************************************************************)
EXTENDS Integers, Sequences, FiniteSets, TLC

VARIABLES
    inp,                 \* arguments of a direct call of a matcher function
    call,                \* the function called on inp and what it returned
    frame,               \* locals of a commented_match call run step by step
    pc,                  \* position of main(): idle, parsed, loop, exited
    argv,                \* command line and file system of the invocation
    snippet,             \* main's local: text of the snippet file
    idx,                 \* main's loop: number of target files handled
    results,             \* main's local list of per-file results
    reads,               \* target files whose read_text() has been called
    prefix_map,          \* main's local: the dict built for the current file
    parses,              \* number of parse_prefix_map calls of the run
    exit_code,           \* process exit status, -1 while running
    uncaught,            \* exception that escaped main(), NoException if none
    BUILTIN_PREFIX_MAP   \* cli.py's module-level dict

vars == <<inp, call, frame, pc, argv, snippet, idx, results, reads,
          prefix_map, parses, exit_code, uncaught, BUILTIN_PREFIX_MAP>>

mainVars == <<pc, argv, snippet, idx, results, reads, prefix_map, parses,
              exit_code, uncaught, BUILTIN_PREFIX_MAP>>

(***************************************************************************)
(* Bounds of the model.                                                    *)
(***************************************************************************)
MaxSnippetLines == 2     \* lines of a snippet text
MaxContentLines == 3     \* lines of a content text
MaxSnippetLineLen == 2   \* characters of a snippet line drawn char by char
MaxFileLineLen == 4      \* characters of a file line drawn char by char
MaxFiles == 2            \* target files on a command line
MaxMapEntries == 2       \* extension=value pairs of a map string

(***************************************************************************)
(* Optional values.                                                        *)
(***************************************************************************)
None == <<>>
Some(v) == <<v>>
IsNone(o) == o = <<>>
Get(o) == o[1]

(***************************************************************************)
(* Python str methods, as far as the program uses them.                    *)
(***************************************************************************)
\* str.splitlines() boundaries that survive in the modelled alphabet
LineBreaks == {"\n", "\r"}
\* characters str.strip()/str.rstrip() remove
Whitespace == {" ", "\t", "\n", "\r"}

RECURSIVE SplitLinesFrom(_, _, _)
SplitLinesFrom(s, i, cur) ==
    IF i > Len(s)
    THEN IF cur = <<>> THEN <<>> ELSE <<cur>>
    ELSE IF s[i] \in LineBreaks
         THEN LET j == IF s[i] = "\r" /\ i < Len(s) /\ s[i + 1] = "\n"
                       THEN i + 2 ELSE i + 1
              IN  <<cur>> \o SplitLinesFrom(s, j, <<>>)
         ELSE SplitLinesFrom(s, i + 1, Append(cur, s[i]))

\* a split that, like s.split("\n"), gives an empty last line after a final
\* boundary
splitlines_empty_last(s) ==
    IF s # <<>> /\ s[Len(s)] \in LineBreaks
    THEN Append(SplitLinesFrom(s, 1, <<>>), <<>>)
    ELSE SplitLinesFrom(s, 1, <<>>)

\* s.splitlines(): boundaries stripped, no empty last line after a final
\* boundary, "\r\n" is one boundary
splitlines(s) == SplitLinesFrom(s, 1, <<>>)

RECURSIVE rstrip(_)
rstrip(s) ==
    IF s # <<>> /\ s[Len(s)] \in Whitespace
    THEN rstrip(SubSeq(s, 1, Len(s) - 1))
    ELSE s

RECURSIVE lstrip(_)
lstrip(s) ==
    IF s # <<>> /\ s[1] \in Whitespace THEN lstrip(Tail(s)) ELSE s

strip(s) == lstrip(rstrip(s))

LowerChar(c) ==
    CASE c = "A" -> "a" [] c = "P" -> "p" [] c = "Y" -> "y"
      [] c = "R" -> "r" [] c = "W" -> "w" [] c = "M" -> "m"
      [] c = "D" -> "d" [] c = "T" -> "t" [] c = "X" -> "x"
      [] OTHER -> c

lower(s) == [i \in 1..Len(s) |-> LowerChar(s[i])]

\* sub in s, scanning the start positions from i on
RECURSIVE FindFrom(_, _, _)
FindFrom(sub, s, i) ==
    IF i + Len(sub) - 1 > Len(s) THEN FALSE
    ELSE IF SubSeq(s, i, i + Len(sub) - 1) = sub THEN TRUE
    ELSE FindFrom(sub, s, i + 1)

\* the `in` operator of str
StrIn(sub, s) == FindFrom(sub, s, 1)

(***************************************************************************)
(* matcher.py                                                              *)
(***************************************************************************)
\* a raw_match that folds letter case before comparing
raw_match_casefold(snippet_, file_content) ==
    StrIn(lower(snippet_), lower(file_content))

raw_match(snippet_, file_content) == StrIn(snippet_, file_content)

\* a line_matches that also accepts the line with any leading indentation
line_matches_lstrip(snippet_line, file_line, prefix) ==
    IF snippet_line = <<>>
    THEN file_line = <<>> \/ rstrip(file_line) = prefix
    ELSE lstrip(file_line) \in {prefix \o <<" ">> \o snippet_line,
                                prefix \o snippet_line}

line_matches(snippet_line, file_line, prefix) ==
    IF snippet_line = <<>>
    THEN file_line = <<>> \/ rstrip(file_line) = prefix
    ELSE file_line \in {prefix \o <<" ">> \o snippet_line,
                        prefix \o snippet_line}

\* the inner for loop: offsets offset..len(snippet_lines)-1 of the window
RECURSIVE WindowMatches(_, _, _, _, _)
WindowMatches(snippet_lines, file_lines, prefix, start_idx, offset) ==
    IF offset >= Len(snippet_lines) THEN TRUE
    ELSE IF ~line_matches(snippet_lines[offset + 1],
                          file_lines[start_idx + offset + 1], prefix)
         THEN FALSE
         ELSE WindowMatches(snippet_lines, file_lines, prefix, start_idx,
                            offset + 1)

\* a scan that gives up at the first anchored window that does not match
RECURSIVE ScanFromFirstAnchor(_, _, _, _)
ScanFromFirstAnchor(snippet_lines, file_lines, prefix, start_idx) ==
    IF start_idx >= Len(file_lines) THEN FALSE
    ELSE IF line_matches(snippet_lines[1], file_lines[start_idx + 1], prefix)
         THEN /\ start_idx + Len(snippet_lines) <= Len(file_lines)
              /\ WindowMatches(snippet_lines, file_lines, prefix, start_idx, 0)
         ELSE ScanFromFirstAnchor(snippet_lines, file_lines, prefix,
                                  start_idx + 1)

\* the outer for loop, from start offset start_idx (0-based) on
RECURSIVE ScanFrom(_, _, _, _)
ScanFrom(snippet_lines, file_lines, prefix, start_idx) ==
    IF start_idx >= Len(file_lines) THEN FALSE
    ELSE IF line_matches(snippet_lines[1], file_lines[start_idx + 1], prefix)
         THEN IF start_idx + Len(snippet_lines) > Len(file_lines)
              THEN ScanFrom(snippet_lines, file_lines, prefix, start_idx + 1)
              ELSE IF WindowMatches(snippet_lines, file_lines, prefix,
                                    start_idx, 0)
                   THEN TRUE
                   ELSE ScanFrom(snippet_lines, file_lines, prefix,
                                 start_idx + 1)
         ELSE ScanFrom(snippet_lines, file_lines, prefix, start_idx + 1)

\* a commented_match that looks at the content lines before the snippet lines
commented_match_content_first(snippet_, file_content, prefix) ==
    LET snippet_lines == splitlines(snippet_)
        file_lines    == splitlines(file_content)
    IN  IF file_lines = <<>> THEN FALSE
        ELSE IF snippet_lines = <<>> THEN TRUE
        ELSE ScanFrom(snippet_lines, file_lines, prefix, 0)

\* a commented_match that splits the content with split("\n"), which gives
\* one empty line for the empty content
commented_match_split_newline(snippet_, file_content, prefix) ==
    LET snippet_lines == splitlines(snippet_)
        file_lines    == IF file_content = <<>> THEN << <<>> >>
                         ELSE splitlines(file_content)
    IN  IF snippet_lines = <<>> THEN TRUE
        ELSE ScanFrom(snippet_lines, file_lines, prefix, 0)

commented_match(snippet_, file_content, prefix) ==
    LET snippet_lines == splitlines(snippet_)
        file_lines    == splitlines(file_content)
    IN  IF snippet_lines = <<>> THEN TRUE
        ELSE IF file_lines = <<>> THEN FALSE
        ELSE ScanFrom(snippet_lines, file_lines, prefix, 0)

\* a check_file whose default dispatch forgets the .yaml extension
check_file_no_yaml(snippet_, file_path, comment_prefix, prefix_map_) ==
    LET file_content == file_path.content
        suffix       == lower(file_path.suffix)
    IN  IF ~IsNone(comment_prefix)
        THEN commented_match(snippet_, file_content, Get(comment_prefix))
        ELSE IF ~IsNone(prefix_map_)
        THEN IF suffix \in DOMAIN Get(prefix_map_)
             THEN LET mapped == Get(prefix_map_)[suffix]
                  IN  IF IsNone(mapped)
                      THEN raw_match(snippet_, file_content)
                      ELSE commented_match(snippet_, file_content, Get(mapped))
             ELSE raw_match(snippet_, file_content)
        ELSE IF suffix \in {<<".", "p", "y">>, <<".", "y", "m", "l">>}
        THEN commented_match(snippet_, file_content, <<"#">>)
        ELSE raw_match(snippet_, file_content)

\* a check_file that treats an extension without an entry like .py
check_file_unmapped_commented(snippet_, file_path, comment_prefix, prefix_map_) ==
    LET file_content == file_path.content
        suffix       == lower(file_path.suffix)
    IN  IF ~IsNone(comment_prefix)
        THEN commented_match(snippet_, file_content, Get(comment_prefix))
        ELSE IF ~IsNone(prefix_map_)
        THEN IF suffix \in DOMAIN Get(prefix_map_)
             THEN LET mapped == Get(prefix_map_)[suffix]
                  IN  IF IsNone(mapped)
                      THEN raw_match(snippet_, file_content)
                      ELSE commented_match(snippet_, file_content, Get(mapped))
             ELSE commented_match(snippet_, file_content, <<"#">>)
        ELSE IF suffix = <<".", "m", "d">>
        THEN raw_match(snippet_, file_content)
        ELSE IF suffix \in {<<".", "p", "y">>, <<".", "y", "m", "l">>,
                            <<".", "y", "a", "m", "l">>}
        THEN commented_match(snippet_, file_content, <<"#">>)
        ELSE raw_match(snippet_, file_content)

\* a check_file that looks the suffix up as it is written in the path
check_file_no_lower(snippet_, file_path, comment_prefix, prefix_map_) ==
    LET file_content == file_path.content
        suffix       == file_path.suffix
    IN  IF ~IsNone(comment_prefix)
        THEN commented_match(snippet_, file_content, Get(comment_prefix))
        ELSE IF ~IsNone(prefix_map_)
        THEN IF suffix \in DOMAIN Get(prefix_map_)
             THEN LET mapped == Get(prefix_map_)[suffix]
                  IN  IF IsNone(mapped)
                      THEN raw_match(snippet_, file_content)
                      ELSE commented_match(snippet_, file_content, Get(mapped))
             ELSE raw_match(snippet_, file_content)
        ELSE IF suffix = <<".", "m", "d">>
        THEN raw_match(snippet_, file_content)
        ELSE IF suffix \in {<<".", "p", "y">>, <<".", "y", "m", "l">>,
                            <<".", "y", "a", "m", "l">>}
        THEN commented_match(snippet_, file_content, <<"#">>)
        ELSE raw_match(snippet_, file_content)

\* check_file once file_path.read_text() has succeeded; file_path is
\* [suffix, readable, decodable, content], comment_prefix an optional str and
\* prefix_map_ an optional dict
check_file(snippet_, file_path, comment_prefix, prefix_map_) ==
    LET file_content == file_path.content
        suffix       == lower(file_path.suffix)
    IN  IF ~IsNone(comment_prefix)
        THEN commented_match(snippet_, file_content, Get(comment_prefix))
        ELSE IF ~IsNone(prefix_map_)
        THEN IF suffix \in DOMAIN Get(prefix_map_)
             THEN LET mapped == Get(prefix_map_)[suffix]
                  IN  IF IsNone(mapped)
                      THEN raw_match(snippet_, file_content)
                      ELSE commented_match(snippet_, file_content, Get(mapped))
             ELSE raw_match(snippet_, file_content)
        ELSE IF suffix = <<".", "m", "d">>
        THEN raw_match(snippet_, file_content)
        ELSE IF suffix \in {<<".", "p", "y">>, <<".", "y", "m", "l">>,
                            <<".", "y", "a", "m", "l">>}
        THEN commented_match(snippet_, file_content, <<"#">>)
        ELSE raw_match(snippet_, file_content)

(***************************************************************************)
(* cli.py                                                                  *)
(***************************************************************************)
NoException == [type |-> "none", msg |-> ""]

\* what unpacking a one-element list into (ext, value) raises
ValueError ==
    [type |-> "ValueError",
     msg  |-> "not enough values to unpack (expected 2, got 1)"]

\* cli.py's BUILTIN_PREFIX_MAP literal
BuiltinLiteral ==
    (<<".", "m", "d">>           :> None) @@
    (<<".", "p", "y">>           :> Some(<<"#">>)) @@
    (<<".", "y", "m", "l">>      :> Some(<<"#">>)) @@
    (<<".", "y", "a", "m", "l">> :> Some(<<"#">>))

\* what read_text() raises on bytes that are not text in the encoding: a
\* ValueError, not an OSError
UnicodeDecodeError ==
    [type |-> "UnicodeDecodeError", msg |-> "codec can't decode byte"]

\* s.split(sep): the segments between the separators, at least one
RECURSIVE SplitFrom(_, _, _, _)
SplitFrom(s, sep, i, cur) ==
    IF i > Len(s) THEN <<cur>>
    ELSE IF s[i] = sep
         THEN <<cur>> \o SplitFrom(s, sep, i + 1, <<>>)
         ELSE SplitFrom(s, sep, i + 1, Append(cur, s[i]))

split(s, sep) == SplitFrom(s, sep, 1, <<>>)

\* position of the first sep in s, 0 if there is none
RECURSIVE IndexFrom(_, _, _)
IndexFrom(s, sep, i) ==
    IF i > Len(s) THEN 0
    ELSE IF s[i] = sep THEN i
    ELSE IndexFrom(s, sep, i + 1)

\* dict.update: d with the entries of e written over it
Update(d, e) ==
    [k \in DOMAIN d \cup DOMAIN e |-> IF k \in DOMAIN e THEN e[k] ELSE d[k]]

\* a parse loop that keeps the whitespace around extension and value
RECURSIVE ParseEntriesNoStrip(_, _, _)
ParseEntriesNoStrip(entries, i, result) ==
    IF i > Len(entries) THEN [exc |-> NoException, result |-> result]
    ELSE LET entry == entries[i]
             eq    == IndexFrom(entry, "=", 1)
         IN  IF eq = 0 THEN [exc |-> ValueError, result |-> result]
             ELSE LET ext   == lower(SubSeq(entry, 1, eq - 1))
                      value == SubSeq(entry, eq + 1, Len(entry))
                      item  == IF lower(value) = <<"r", "a", "w">>
                               THEN None ELSE Some(value)
                  IN  ParseEntriesNoStrip(entries, i + 1,
                                          Update(result, ext :> item))

\* the for loop of parse_prefix_map from entry i on; entry.split("=", 1)
\* has one element when the entry holds no "=", and the unpacking raises
RECURSIVE ParseEntries(_, _, _)
ParseEntries(entries, i, result) ==
    IF i > Len(entries) THEN [exc |-> NoException, result |-> result]
    ELSE LET entry == entries[i]
             eq    == IndexFrom(entry, "=", 1)
         IN  IF eq = 0 THEN [exc |-> ValueError, result |-> result]
             ELSE LET ext   == lower(strip(SubSeq(entry, 1, eq - 1)))
                      value == strip(SubSeq(entry, eq + 1, Len(entry)))
                      item  == IF lower(value) = <<"r", "a", "w">>
                               THEN None ELSE Some(value)
                  IN  ParseEntries(entries, i + 1,
                                   Update(result, ext :> item))

\* [exc, result]: the exception raised, or the dict returned
parse_prefix_map(map_str) == ParseEntries(split(map_str, ","), 1, <<>>)

\* a merge that updates the built-in dict in place, without .copy()
MergeInPlace(builtin, override) ==
    [prefix_map |-> Update(builtin, override),
     builtin    |-> Update(builtin, override)]

\* prefix_map = BUILTIN_PREFIX_MAP.copy(); prefix_map.update(override):
\* the dict built and the built-in dict afterwards
MergeOverride(builtin, override) ==
    [prefix_map |-> Update(builtin, override), builtin |-> builtin]

\* truth value of an optional str: neither None nor ""
Truthy(o) == ~IsNone(o) /\ Get(o) # <<>>

\* all(results)
all(rs) == \A i \in 1..Len(rs) : rs[i]

\* exit status of the interpreter when an exception escapes main()
UncaughtExitStatus == 1

(***************************************************************************)
(* Inputs of the direct calls.                                             *)
(***************************************************************************)
SeqsUpTo(V, n) == UNION {[1..k -> V] : k \in 0..n}

\* "\n".join(lines)
RECURSIVE JoinLines(_)
JoinLines(ls) ==
    IF ls = <<>> THEN <<>>
    ELSE IF Len(ls) = 1 THEN ls[1]
    ELSE ls[1] \o <<"\n">> \o JoinLines(Tail(ls))

\* the texts of at most n lines over the line vocabulary V; a last empty
\* line gives a text that ends with a line boundary
Texts(V, n) == {JoinLines(ls) : ls \in SeqsUpTo(V, n)}

SnippetLineVocab == {<<>>, <<"a">>, <<"A">>}

ContentLineVocab ==
    {<<>>, <<"#">>, <<"#", " ">>, <<"#", "a">>, <<"#", " ", "a">>,
     <<"#", "A">>, <<"a">>}

LineChars == {"a", "#", " "}

Prefixes == {<<>>, <<"#">>, <<" ">>}

\* whole texts, for raw_match and commented_match
TextInputs ==
    [snippet : Texts(SnippetLineVocab, MaxSnippetLines),
     content : Texts(ContentLineVocab, MaxContentLines),
     prefix  : {<<>>, <<"#">>}]

\* single lines drawn character by character, for line_matches
LineInputs ==
    [snippet : SeqsUpTo(LineChars, MaxSnippetLineLen),
     content : SeqsUpTo(LineChars, MaxFileLineLen),
     prefix  : Prefixes]

NoCall == [fn |-> "none", ret |-> FALSE, exc |-> "none"]

\* no stepwise call is running
NoFrame == [pc |-> "none"]

NoArgv == [help |-> FALSE]

\* main() is not running
MainIdle ==
    /\ pc = "idle"
    /\ argv = NoArgv
    /\ snippet = <<>>
    /\ idx = 0
    /\ results = <<>>
    /\ reads = <<>>
    /\ prefix_map = None
    /\ parses = 0
    /\ exit_code = -1
    /\ uncaught = NoException
    /\ BUILTIN_PREFIX_MAP = BuiltinLiteral

(***************************************************************************)
(* SpecMatch: direct calls of the matcher functions on drawn inputs.       *)
(***************************************************************************)
InitMatch ==
    /\ inp \in TextInputs \cup LineInputs
    /\ call = NoCall
    /\ frame = NoFrame
    /\ MainIdle

CallRawMatch ==
    /\ call.fn = "none"
    /\ call' = [fn  |-> "raw_match",
                ret |-> raw_match(inp.snippet, inp.content),
                exc |-> "none"]
    /\ UNCHANGED <<inp, frame, mainVars>>

CallCommentedMatch ==
    /\ call.fn = "none"
    /\ call' = [fn  |-> "commented_match",
                ret |-> commented_match(inp.snippet, inp.content, inp.prefix),
                exc |-> "none"]
    /\ UNCHANGED <<inp, frame, mainVars>>

\* line_matches is only ever applied to lines splitlines() produced
CallLineMatches ==
    /\ call.fn = "none"
    /\ \A i \in 1..Len(inp.snippet) : inp.snippet[i] \notin LineBreaks
    /\ \A i \in 1..Len(inp.content) : inp.content[i] \notin LineBreaks
    /\ call' = [fn  |-> "line_matches",
                ret |-> line_matches(inp.snippet, inp.content, inp.prefix),
                exc |-> "none"]
    /\ UNCHANGED <<inp, frame, mainVars>>

NextMatch == CallRawMatch \/ CallCommentedMatch \/ CallLineMatches

SpecMatch == InitMatch /\ [][NextMatch]_vars

(***************************************************************************)
(* Spec: invocations of main().                                            *)
(***************************************************************************)
MainSnippets == {<<"a">>}

MainContents == {<<"a">>, <<"#", "a">>}

MainSuffixes == {<<".", "m", "d">>, <<".", "p", "y">>, <<".", "t", "x", "t">>}

\* target files: text files, files that cannot be opened, and files that
\* open but do not hold text
MainFiles ==
    [suffix : MainSuffixes, readable : {TRUE}, decodable : {TRUE},
     content : MainContents]
        \cup [suffix : MainSuffixes, readable : {FALSE}, decodable : {TRUE},
              content : {<<>>}]
        \cup [suffix : MainSuffixes, readable : {TRUE}, decodable : {FALSE},
              content : {<<>>}]

\* values of --comment-prefix-map: absent, "", ".py=raw", ".txt=#",
\* ".txt" and ".py=raw,.js"
MapStrings ==
    {None,
     Some(<<>>),
     Some(<<".", "p", "y", "=", "r", "a", "w">>),
     Some(<<".", "t", "x", "t", "=", "#">>),
     Some(<<".", "t", "x", "t">>),
     Some(<<".", "p", "y", "=", "r", "a", "w", ",", ".", "j", "s">>)}

\* a command line together with the files it names: snippet_option is the
\* option the snippet path is given with, content_file is "absent" when
\* no snippet path is given, else says whether the snippet file can be read
Argvs ==
    [help                 : BOOLEAN,
     snippet_option       : {"--content-file", "--snippet-file"},
     content_file         : {"absent", "readable", "unreadable",
                             "undecodable"},
     snippet_text         : MainSnippets,
     comment_prefix       : {None, Some(<<>>), Some(<<"#">>)},
     infer_comment_prefix : BOOLEAN,
     comment_prefix_map   : MapStrings,
     files                : SeqsUpTo(MainFiles, MaxFiles)]

Init ==
    /\ inp = [snippet |-> <<>>, content |-> <<>>, prefix |-> <<>>]
    /\ call = NoCall
    /\ frame = NoFrame
    /\ MainIdle

\* a run of main() begins, in the interpreter that imported cli.py
Invoke ==
    /\ pc = "idle"
    /\ argv' \in Argvs
    /\ pc' = "start"
    /\ UNCHANGED <<inp, call, frame, snippet, idx, results, reads, prefix_map,
                   parses, exit_code, uncaught, BUILTIN_PREFIX_MAP>>

\* the SystemExit or the escaped exception has reached main's caller: the
\* locals of the run are gone, the module and its globals stay
Return ==
    /\ pc = "exited"
    /\ pc' = "idle"
    /\ argv' = NoArgv
    /\ snippet' = <<>>
    /\ idx' = 0
    /\ results' = <<>>
    /\ reads' = <<>>
    /\ prefix_map' = None
    /\ parses' = 0
    /\ exit_code' = -1
    /\ uncaught' = NoException
    /\ UNCHANGED <<inp, call, frame, BUILTIN_PREFIX_MAP>>

\* sys.exit(code)
Exit(code) ==
    /\ pc' = "exited"
    /\ exit_code' = code

\* parser.parse_args(): -h prints the help and exits 0; a missing
\* --content-file, an option the parser does not define or an empty files
\* list is an error, status 2
ParseArgs ==
    /\ pc = "start"
    /\ IF argv.help
       THEN Exit(0)
       ELSE IF \/ argv.content_file = "absent"
               \/ argv.snippet_option # "--content-file"
               \/ argv.files = <<>>
            THEN Exit(2)
            ELSE pc' = "parsed" /\ UNCHANGED exit_code
    /\ UNCHANGED <<inp, call, frame, argv, snippet, idx, results, reads,
                   prefix_map, parses, uncaught, BUILTIN_PREFIX_MAP>>

\* args.content_file.read_text()
ReadSnippet ==
    /\ pc = "parsed"
    /\ IF argv.content_file = "unreadable"
       THEN Exit(2) /\ UNCHANGED <<snippet, uncaught>>
       ELSE IF argv.content_file = "undecodable"
       THEN /\ uncaught' = UnicodeDecodeError
            /\ Exit(UncaughtExitStatus)
            /\ UNCHANGED snippet
       ELSE /\ snippet' = argv.snippet_text
            /\ pc' = "loop"
            /\ UNCHANGED <<exit_code, uncaught>>
    /\ UNCHANGED <<inp, call, frame, argv, idx, results, reads, prefix_map,
                   parses, BUILTIN_PREFIX_MAP>>

\* elif args.infer_comment_prefix: the copy of the built-in dict with the
\* parsed override, if one is given, written over it
InferBranch(args, builtin) ==
    IF Truthy(args.comment_prefix_map)
    THEN LET p == parse_prefix_map(Get(args.comment_prefix_map))
             m == MergeOverride(builtin, p.result)
         IN  IF p.exc # NoException
             THEN [branch |-> "infer", exc |-> p.exc,
                   prefix_map |-> Some(builtin), builtin |-> builtin,
                   parsed |-> 1]
             ELSE [branch |-> "infer", exc |-> NoException,
                   prefix_map |-> Some(m.prefix_map),
                   builtin |-> m.builtin, parsed |-> 1]
    ELSE [branch |-> "infer", exc |-> NoException,
          prefix_map |-> Some(builtin), builtin |-> builtin,
          parsed |-> 0]

\* a dispatch that takes a given override map as asking for inference
DispatchMapInfers(args, builtin) ==
    IF Truthy(args.comment_prefix)
    THEN [branch |-> "forced", exc |-> NoException, prefix_map |-> None,
          builtin |-> builtin, parsed |-> 0]
    ELSE IF args.infer_comment_prefix \/ Truthy(args.comment_prefix_map)
    THEN InferBranch(args, builtin)
    ELSE [branch |-> "default", exc |-> NoException, prefix_map |-> None,
          builtin |-> builtin, parsed |-> 0]

\* one iteration of the loop over args.files: what it does before the file
\* is read.  [branch, exc, prefix_map, builtin, parsed]
Dispatch(args, builtin) ==
    IF Truthy(args.comment_prefix)
    THEN [branch |-> "forced", exc |-> NoException, prefix_map |-> None,
          builtin |-> builtin, parsed |-> 0]
    ELSE IF args.infer_comment_prefix
    THEN InferBranch(args, builtin)
    ELSE [branch |-> "default", exc |-> NoException, prefix_map |-> None,
          builtin |-> builtin, parsed |-> 0]

\* the check_file call of the branch taken
CheckCall(args, d, snippet_, file_path) ==
    IF d.branch = "forced"
    THEN check_file(snippet_, file_path, args.comment_prefix, None)
    ELSE IF d.branch = "infer"
    THEN check_file(snippet_, file_path, None, d.prefix_map)
    ELSE check_file(snippet_, file_path, None, None)

\* the body of the for loop for file_path under the dispatch d: an
\* exception of parse_prefix_map escapes main(), an OSError of read_text()
\* exits 2, a UnicodeDecodeError of read_text() escapes main()
LoopBody(file_path, d) ==
    /\ parses' = parses + d.parsed
    /\ prefix_map' = d.prefix_map
    /\ BUILTIN_PREFIX_MAP' = d.builtin
    /\ IF d.exc # NoException
       THEN /\ uncaught' = d.exc
            /\ Exit(UncaughtExitStatus)
            /\ UNCHANGED <<idx, results, reads>>
       ELSE /\ reads' = Append(reads, idx + 1)
            /\ IF ~file_path.readable
               THEN Exit(2) /\ UNCHANGED <<idx, results, uncaught>>
               ELSE IF ~file_path.decodable
               THEN /\ uncaught' = UnicodeDecodeError
                    /\ Exit(UncaughtExitStatus)
                    /\ UNCHANGED <<idx, results>>
               ELSE /\ UNCHANGED uncaught
                    /\ results' =
                         Append(results,
                                CheckCall(argv, d, snippet, file_path))
                    /\ idx' = idx + 1
                    /\ UNCHANGED <<pc, exit_code>>
    /\ UNCHANGED <<inp, call, frame, argv, snippet>>

\* the loop with the parse hoisted out of it: the override is parsed for
\* the first file only
CheckNextFileParseOnce ==
    /\ pc = "loop"
    /\ idx < Len(argv.files)
    /\ LET d == Dispatch(argv, BUILTIN_PREFIX_MAP)
       IN  LoopBody(argv.files[idx + 1],
                    IF idx = 0 THEN d ELSE [d EXCEPT !.parsed = 0])

\* one iteration of for file_path in args.files
CheckNextFile ==
    /\ pc = "loop"
    /\ idx < Len(argv.files)
    /\ LoopBody(argv.files[idx + 1], Dispatch(argv, BUILTIN_PREFIX_MAP))

\* sys.exit(0 if all(results) else 1)
Finish ==
    /\ pc = "loop"
    /\ idx = Len(argv.files)
    /\ Exit(IF all(results) THEN 0 ELSE 1)
    /\ UNCHANGED <<inp, call, frame, argv, snippet, idx, results, reads,
                   prefix_map, parses, uncaught, BUILTIN_PREFIX_MAP>>

Next ==
    Invoke \/ ParseArgs \/ ReadSnippet \/ CheckNextFile \/ Finish \/ Return

Spec == Init /\ [][Next]_vars

(***************************************************************************)
(* C1: commented_match returns true exactly when some start offset i with  *)
(* i + n <= m has every snippet line S[k] matching content line C[i+k]:    *)
(* the snippet lines appear as one contiguous run, in order.               *)
(***************************************************************************)
C1_ContiguousRun ==
    LET S == splitlines(inp.snippet)
        C == splitlines(inp.content)
        n == Len(S)
        m == Len(C)
    IN  (call.fn = "commented_match" /\ n >= 1) =>
            (call.ret <=>
                \E i \in 0..(m - n) :
                    \A k \in 0..(n - 1) :
                        line_matches(S[k + 1], C[i + k + 1], inp.prefix))

\* a two-line snippet whose first line matches an earlier content line that
\* does not start a run, found at a later offset
C1_Witness ==
    LET S == splitlines(inp.snippet)
        C == splitlines(inp.content)
    IN  /\ call.fn = "commented_match"
        /\ call.ret
        /\ Len(S) = 2
        /\ Len(C) = 3
        /\ inp.prefix = <<"#">>
        /\ line_matches(S[1], C[1], inp.prefix)
        /\ ~line_matches(S[2], C[2], inp.prefix)

(***************************************************************************)
(* C2: line equivalence.  A non-empty snippet line s matches c exactly     *)
(* when c is prefix, at most one space, then s; an empty snippet line      *)
(* matches c exactly when c is empty or c without its trailing whitespace  *)
(* is the prefix.  Two spaces after the prefix never match; leading        *)
(* indentation before a prefix that starts with a visible character and    *)
(* trailing text after a line that does not start with a space do not      *)
(* match either.                                                           *)
(***************************************************************************)
\* c is p, then gap spaces, then s, compared position by position
PrefixGapLine(s, c, p, gap) ==
    /\ Len(c) = Len(p) + gap + Len(s)
    /\ \A i \in 1..Len(p) : c[i] = p[i]
    /\ \A i \in 1..gap : c[Len(p) + i] = " "
    /\ \A i \in 1..Len(s) : c[Len(p) + gap + i] = s[i]

\* c without trailing whitespace is p
BarePrefix(c, p) ==
    /\ Len(p) <= Len(c)
    /\ \A i \in 1..Len(p) : c[i] = p[i]
    /\ \A i \in (Len(p) + 1)..Len(c) : c[i] \in Whitespace
    /\ p = <<>> \/ p[Len(p)] \notin Whitespace

LineEquivalent(s, c, p) ==
    IF s = <<>>
    THEN c = <<>> \/ BarePrefix(c, p)
    ELSE PrefixGapLine(s, c, p, 0) \/ PrefixGapLine(s, c, p, 1)

C2_LineEquivalence ==
    LET s == inp.snippet
        c == inp.content
        p == inp.prefix
    IN  call.fn = "line_matches" =>
            /\ call.ret <=> LineEquivalent(s, c, p)
            /\ (s # <<>> /\ PrefixGapLine(s, c, p, 2)) => ~call.ret
            /\ \A k \in 1..Len(c) :
                   ( /\ s # <<>>
                     /\ p # <<>>
                     /\ p[1] \notin Whitespace
                     /\ \A i \in 1..k : c[i] \in Whitespace
                     /\ LineEquivalent(s, SubSeq(c, k + 1, Len(c)), p) )
                   => ~call.ret
            /\ \A k \in 0..(Len(c) - 1) :
                   ( /\ s # <<>>
                     /\ s[1] # " "
                     /\ LineEquivalent(s, SubSeq(c, 1, k), p) )
                   => ~call.ret

\* an indented comment line is refused
C2_Witness ==
    /\ call.fn = "line_matches"
    /\ inp.snippet = <<"a">>
    /\ inp.prefix = <<"#">>
    /\ inp.content = <<" ", "#", " ", "a">>
    /\ ~call.ret

(***************************************************************************)
(* C3: raw_match returns true exactly when the snippet occurs in the       *)
(* content as a contiguous run of equal characters; characters that differ *)
(* only in letter case or whitespace are different.                        *)
(***************************************************************************)
C3_RawSubstring ==
    LET s == inp.snippet
        c == inp.content
    IN  call.fn = "raw_match" =>
            (call.ret <=>
                \E i \in 0..(Len(c) - Len(s)) :
                    \A k \in 1..Len(s) : c[i + k] = s[k])

\* a snippet absent from the content although it occurs there in the other
\* letter case
C3_Witness ==
    /\ call.fn = "raw_match"
    /\ ~call.ret
    /\ inp.snippet # <<>>
    /\ StrIn(lower(inp.snippet), lower(inp.content))

(***************************************************************************)
(* SpecCheck: direct calls of check_file on drawn inputs.                  *)
(***************************************************************************)
CheckSnippetVocab == {<<>>, <<"a">>, <<"A">>}

CheckContentVocab == {<<"a">>, <<"#", "a">>, <<"#", "A">>}

Suffixes ==
    {<<".", "m", "d">>, <<".", "p", "y">>, <<".", "y", "m", "l">>,
     <<".", "y", "a", "m", "l">>, <<".", "t", "x", "t">>, <<".", "P", "Y">>,
     <<>>}

\* the target files of the model: a path's suffix, whether read_text()
\* succeeds, and the text it returns
ReadableFiles(contents) ==
    [suffix : Suffixes, readable : {TRUE}, decodable : {TRUE},
     content : contents]

UnreadableFiles ==
    [suffix : Suffixes, readable : {FALSE}, decodable : {TRUE},
     content : {<<>>}]

UndecodableFiles ==
    [suffix : Suffixes, readable : {TRUE}, decodable : {FALSE},
     content : {<<>>}]

PrefixMaps ==
    {BuiltinLiteral,
     <<".", "p", "y">> :> None,
     <<".", "p", "y">> :> Some(<<"#">>),
     <<".", "m", "d">> :> Some(<<"#">>)}

CheckInputs ==
    [snippet        : Texts(CheckSnippetVocab, MaxSnippetLines),
     file           : ReadableFiles(Texts(CheckContentVocab, MaxContentLines))
                          \cup UnreadableFiles \cup UndecodableFiles,
     comment_prefix : {None, Some(<<"#">>), Some(<<>>)},
     prefix_map     : {None} \cup {Some(m) : m \in PrefixMaps}]

InitCheck ==
    /\ inp \in CheckInputs
    /\ call = NoCall
    /\ frame = NoFrame
    /\ MainIdle

CallCheckFile ==
    /\ call.fn = "none"
    /\ call' = IF ~inp.file.readable
               THEN [fn |-> "check_file", ret |-> FALSE, exc |-> "OSError"]
               ELSE IF ~inp.file.decodable
               THEN [fn |-> "check_file", ret |-> FALSE,
                     exc |-> UnicodeDecodeError.type]
               ELSE [fn  |-> "check_file",
                     ret |-> check_file(inp.snippet, inp.file,
                                        inp.comment_prefix, inp.prefix_map),
                     exc |-> "none"]
    /\ UNCHANGED <<inp, frame, mainVars>>

NextCheck == CallCheckFile

SpecCheck == InitCheck /\ [][NextCheck]_vars

Returned(fn) == call.fn = fn /\ call.exc = "none"

(***************************************************************************)
(* C5: with neither a forced prefix nor a mapping, check_file gives what   *)
(* it gives with prefix_map = BUILTIN_PREFIX_MAP: .md raw, .py, .yml and   *)
(* .yaml commented with "#", any other extension raw.                      *)
(***************************************************************************)
C5_DefaultIsBuiltin ==
    LET s   == inp.snippet
        c   == inp.file.content
        ext == lower(inp.file.suffix)
    IN  ( /\ Returned("check_file")
          /\ IsNone(inp.comment_prefix)
          /\ IsNone(inp.prefix_map) ) =>
            /\ call.ret = check_file(s, inp.file, None,
                                     Some(BUILTIN_PREFIX_MAP))
            /\ call.ret =
                 IF ext \in {<<".", "p", "y">>, <<".", "y", "m", "l">>,
                             <<".", "y", "a", "m", "l">>}
                 THEN commented_match(s, c, <<"#">>)
                 ELSE raw_match(s, c)

\* raw-only content in a .yaml file does not contain the snippet
C5_Witness ==
    /\ Returned("check_file")
    /\ IsNone(inp.comment_prefix)
    /\ IsNone(inp.prefix_map)
    /\ inp.file.suffix = <<".", "y", "a", "m", "l">>
    /\ inp.snippet = <<"a">>
    /\ inp.file.content = <<"a">>
    /\ ~call.ret

(***************************************************************************)
(* C6: with a mapping and no forced prefix, an entry for the extension     *)
(* decides (a string: commented with it, the raw sentinel: raw) and an     *)
(* extension without an entry is matched raw, so content made of comment   *)
(* lines does not contain a multi-line snippet there.                      *)
(***************************************************************************)
StartsWith(line, p) ==
    Len(line) >= Len(p) /\ SubSeq(line, 1, Len(p)) = p

C6_MappingDecides ==
    LET s   == inp.snippet
        c   == inp.file.content
        ext == lower(inp.file.suffix)
    IN  ( /\ Returned("check_file")
          /\ IsNone(inp.comment_prefix)
          /\ ~IsNone(inp.prefix_map) ) =>
            LET pm == Get(inp.prefix_map)
            IN  /\ (ext \in DOMAIN pm /\ ~IsNone(pm[ext])) =>
                       call.ret = commented_match(s, c, Get(pm[ext]))
                /\ (ext \in DOMAIN pm /\ IsNone(pm[ext])) =>
                       call.ret = raw_match(s, c)
                /\ ext \notin DOMAIN pm =>
                       /\ call.ret = raw_match(s, c)
                       /\ ( /\ Len(splitlines(s)) >= 2
                            /\ \A i \in 1..Len(splitlines(s)) :
                                   /\ splitlines(s)[i] # <<>>
                                   /\ ~StartsWith(splitlines(s)[i], <<"#">>)
                            /\ \A j \in 1..Len(splitlines(c)) :
                                   StartsWith(splitlines(c)[j], <<"#">>) )
                          => ~call.ret

\* a commented two-line snippet in a file whose extension has no entry
C6_Witness ==
    /\ Returned("check_file")
    /\ IsNone(inp.comment_prefix)
    /\ ~IsNone(inp.prefix_map)
    /\ lower(inp.file.suffix) \notin DOMAIN Get(inp.prefix_map)
    /\ Len(splitlines(inp.snippet)) = 2
    /\ commented_match(inp.snippet, inp.file.content, <<"#">>)
    /\ ~call.ret

(***************************************************************************)
(* Properties of main().                                                   *)
(***************************************************************************)
\* the command line parsed without error and without -h
ParsedOk ==
    /\ ~argv.help
    /\ argv.content_file # "absent"
    /\ argv.snippet_option = "--content-file"
    /\ argv.files # <<>>

AllReadable == \A i \in 1..Len(argv.files) : argv.files[i].readable

\* target file i contains the snippet under the policy main() selects
Contains(i) ==
    CheckCall(argv, Dispatch(argv, BUILTIN_PREFIX_MAP), argv.snippet_text,
              argv.files[i])

\* the comma-separated segments of map_str that hold no "="
Offending(map_str) ==
    LET segs == split(map_str, ",")
    IN  {i \in 1..Len(segs) : \A j \in 1..Len(segs[i]) : segs[i][j] # "="}

Malformed(map_str) == Offending(map_str) # {}

FirstOffending(map_str) ==
    LET segs == split(map_str, ",")
        i    == CHOOSE k \in Offending(map_str) :
                    \A l \in Offending(map_str) : k <= l
    IN  segs[i]

\* the exception e raised for map_str tells its offending segment apart
\* from the offending segment of any other malformed map
IdentifiesSegment(e, map_str) ==
    \A o \in MapStrings :
        ( /\ Truthy(o)
          /\ Malformed(Get(o))
          /\ FirstOffending(Get(o)) # FirstOffending(map_str) )
        => parse_prefix_map(Get(o)).exc # e

(***************************************************************************)
(* C4: when --comment-prefix is given, with any string value, every target *)
(* file is checked by commented matching with exactly that prefix,         *)
(* whatever its extension and the other options.                           *)
(***************************************************************************)
C4_ForcedPrefixDominates ==
    \A i \in 1..Len(results) :
        ~IsNone(argv.comment_prefix) =>
            results[i] = commented_match(snippet, argv.files[i].content,
                                         Get(argv.comment_prefix))

(***************************************************************************)
(* C7: the dict built for a file is the built-in dict with the override's  *)
(* entries written over it (override keys have the override's value, the   *)
(* other built-in keys keep theirs, new keys are added), and               *)
(* BUILTIN_PREFIX_MAP is the literal of cli.py after any number of files   *)
(* and invocations.                                                        *)
(***************************************************************************)
C7_MergeKeepsBuiltin ==
    /\ BUILTIN_PREFIX_MAP = BuiltinLiteral
    /\ (~IsNone(prefix_map) /\ uncaught = NoException) =>
           LET merged   == Get(prefix_map)
               override == IF Truthy(argv.comment_prefix_map)
                           THEN parse_prefix_map(
                                    Get(argv.comment_prefix_map)).result
                           ELSE <<>>
           IN  /\ DOMAIN merged = DOMAIN BuiltinLiteral \cup DOMAIN override
               /\ \A k \in DOMAIN override : merged[k] = override[k]
               /\ \A k \in DOMAIN BuiltinLiteral \ DOMAIN override :
                      merged[k] = BuiltinLiteral[k]

\* two files checked with .py overridden to raw and the built-in entry intact
C7_Witness ==
    /\ Len(results) = 2
    /\ ~IsNone(prefix_map)
    /\ Get(prefix_map)[<<".", "p", "y">>] = None
    /\ BUILTIN_PREFIX_MAP[<<".", "p", "y">>] = Some(<<"#">>)

(***************************************************************************)
(* C8: a segment without "=" makes rule construction fail with an error    *)
(* that identifies the offending segment, raised before any matching, and  *)
(* no other error comes out of the core.                                   *)
(***************************************************************************)
C8_MalformedRuleEntry ==
    /\ uncaught # NoException =>
           /\ Truthy(argv.comment_prefix_map)
           /\ Malformed(Get(argv.comment_prefix_map))
           /\ results = <<>>
           /\ reads = <<>>
           /\ IdentifiesSegment(uncaught, Get(argv.comment_prefix_map))
    /\ (parses > 0 /\ Malformed(Get(argv.comment_prefix_map))) =>
           uncaught # NoException

(***************************************************************************)
(* C9: with the snippet file and every target file readable, main exits 0  *)
(* exactly when every target file contains the snippet and 1 exactly when  *)
(* some target file does not; nothing else produces exit code 1.           *)
(***************************************************************************)
C9_ExitIsConjunction ==
    pc = "exited" =>
        /\ (ParsedOk /\ argv.content_file = "readable" /\ AllReadable) =>
               /\ exit_code = 0 <=> \A i \in 1..Len(argv.files) : Contains(i)
               /\ exit_code = 1 <=> \E i \in 1..Len(argv.files) : ~Contains(i)
        /\ exit_code = 1 =>
               /\ ParsedOk
               /\ argv.content_file = "readable"
               /\ AllReadable
               /\ \E i \in 1..Len(argv.files) : ~Contains(i)

(***************************************************************************)
(* C10: input errors exit 2.  An unreadable snippet file exits 2 before    *)
(* any target file is read; an unreadable target file exits 2 wherever it  *)
(* stands in the list and whatever the other files gave; a command line    *)
(* without --content-file or without files exits 2; --help exits 0.        *)
(***************************************************************************)
C10_InputErrorsExit2 ==
    pc = "exited" =>
        /\ argv.help => exit_code = 0
        /\ (~argv.help /\ ~ParsedOk) => exit_code = 2
        /\ (ParsedOk /\ argv.content_file = "unreadable") =>
               exit_code = 2 /\ reads = <<>>
        /\ (ParsedOk /\ argv.content_file = "readable" /\ ~AllReadable) =>
               exit_code = 2

(***************************************************************************)
(* C11: the empty snippet matches everything: for every content, every     *)
(* extension and every option choice check_file returns true for the       *)
(* zero-length snippet; raw_match("", C) is true and commented_match is    *)
(* true whenever the snippet splits into zero lines.                       *)
(***************************************************************************)
C11_EmptySnippetMatches ==
    (Returned("check_file") /\ splitlines(inp.snippet) = <<>>) =>
        /\ inp.snippet = <<>>
        /\ call.ret
        /\ raw_match(inp.snippet, inp.file.content)
        /\ \A p \in Prefixes :
               commented_match(inp.snippet, inp.file.content, p)

\* the empty snippet in an empty .py file under a forced prefix
C11_Witness ==
    /\ Returned("check_file")
    /\ inp.snippet = <<>>
    /\ inp.file.content = <<>>
    /\ ~IsNone(inp.comment_prefix)
    /\ call.ret

(***************************************************************************)
(* C12: empty content contains no non-trivial snippet: for every non-empty *)
(* snippet, every prefix and every policy the check against the            *)
(* zero-length content returns false.                                      *)
(***************************************************************************)
C12_EmptyContentFails ==
    ( /\ Returned("check_file")
      /\ inp.snippet # <<>>
      /\ inp.file.content = <<>> ) =>
        /\ ~call.ret
        /\ ~raw_match(inp.snippet, inp.file.content)
        /\ \A p \in Prefixes :
               ~commented_match(inp.snippet, inp.file.content, p)

\* a snippet that is one empty line, against the empty content of a file
\* matched as comments
C12_Witness ==
    /\ Returned("check_file")
    /\ inp.snippet = <<"\n">>
    /\ inp.file.content = <<>>
    /\ inp.file.suffix = <<".", "p", "y">>
    /\ IsNone(inp.comment_prefix)
    /\ IsNone(inp.prefix_map)
    /\ ~call.ret

(***************************************************************************)
(* C13: prefix resolution ignores the letter case of the extension: with   *)
(* rule keys stored lowercase, a file whose extension differs only in case *)
(* gives the same result, and the override ".PY=raw" applies to .py files. *)
(***************************************************************************)
C13_ExtensionCaseInsensitive ==
    Returned("check_file") =>
        /\ \A sfx \in Suffixes :
               lower(sfx) = lower(inp.file.suffix) =>
                   call.ret = check_file(inp.snippet,
                                         [inp.file EXCEPT !.suffix = sfx],
                                         inp.comment_prefix, inp.prefix_map)
        /\ LET override == parse_prefix_map(
                               <<".", "P", "Y", "=", "r", "a", "w">>).result
               merged   == Update(BUILTIN_PREFIX_MAP, override)
           IN  ( /\ lower(inp.file.suffix) = <<".", "p", "y">>
                 /\ IsNone(inp.comment_prefix) ) =>
                   check_file(inp.snippet, inp.file, None, Some(merged))
                       = raw_match(inp.snippet, inp.file.content)

\* raw-only content in a file named .PY is matched as comments
C13_Witness ==
    /\ Returned("check_file")
    /\ inp.file.suffix = <<".", "P", "Y">>
    /\ IsNone(inp.comment_prefix)
    /\ inp.prefix_map = Some(BuiltinLiteral)
    /\ inp.snippet = <<"a">>
    /\ inp.file.content = <<"a">>
    /\ ~call.ret

(***************************************************************************)
(* SpecParse: direct calls of parse_prefix_map on map strings written from *)
(* extension=value pairs.                                                  *)
(***************************************************************************)
PairExtensions ==
    {<<".", "p", "y">>, <<".", "P", "Y">>, <<".", "m", "d">>}

PairValues == {<<"r", "a", "w">>, <<"R", "A", "W">>, <<"#">>, <<"/", "/">>}

\* an extension, a value and the whitespace written around both
Pairs == [ext : PairExtensions, value : PairValues, pad : {<<>>, <<" ">>}]

\* the pair as it is written in a map string: " .py = # "
WriteEntry(pair) ==
    pair.pad \o pair.ext \o pair.pad \o <<"=">> \o pair.pad \o pair.value
        \o pair.pad

\* ",".join of the written pairs
RECURSIVE WriteMap(_)
WriteMap(pairs) ==
    IF pairs = <<>> THEN <<>>
    ELSE IF Len(pairs) = 1 THEN WriteEntry(pairs[1])
    ELSE WriteEntry(pairs[1]) \o <<",">> \o WriteMap(Tail(pairs))

InitParse ==
    /\ \E pairs \in SeqsUpTo(Pairs, MaxMapEntries) :
           inp = [pairs |-> pairs, map_str |-> WriteMap(pairs)]
    /\ call = NoCall
    /\ frame = NoFrame
    /\ MainIdle

CallParsePrefixMap ==
    /\ call.fn = "none"
    /\ LET p == parse_prefix_map(inp.map_str)
       IN  call' = [fn  |-> "parse_prefix_map",
                    ret |-> p.result,
                    exc |-> p.exc.type]
    /\ UNCHANGED <<inp, frame, mainVars>>

NextParse == CallParsePrefixMap

SpecParse == InitParse /\ [][NextParse]_vars

(***************************************************************************)
(* C14: parse_prefix_map turns comma-separated extension=value pairs into  *)
(* a mapping whose keys are the extensions trimmed and lowercased and      *)
(* whose values are the values trimmed, "raw" in any letter case giving    *)
(* the raw sentinel and any other value being kept as the prefix.          *)
(***************************************************************************)
C14_ParsePrefixMap ==
    (call.fn = "parse_prefix_map" /\ inp.pairs # <<>>) =>
        LET n == Len(inp.pairs)
        IN  /\ call.exc = "none"
            /\ DOMAIN call.ret = {lower(inp.pairs[i].ext) : i \in 1..n}
            /\ \A i \in 1..n :
                   (\A j \in (i + 1)..n :
                        lower(inp.pairs[j].ext) # lower(inp.pairs[i].ext))
                   => call.ret[lower(inp.pairs[i].ext)] =
                          IF inp.pairs[i].value
                                 \in {<<"r", "a", "w">>, <<"R", "A", "W">>}
                          THEN None
                          ELSE Some(inp.pairs[i].value)

\* " .PY = RAW ,.md=//" parsed to {".py": None, ".md": "//"}
C14_Witness ==
    /\ call.fn = "parse_prefix_map"
    /\ Len(inp.pairs) = 2
    /\ inp.pairs[1] = [ext |-> <<".", "P", "Y">>, value |-> <<"R", "A", "W">>,
                       pad |-> <<" ">>]
    /\ inp.pairs[2].ext = <<".", "m", "d">>
    /\ call.ret = (<<".", "p", "y">> :> None)
                      @@ (<<".", "m", "d">> :> Some(<<"/", "/">>))


(***************************************************************************)
(* main() as a function of its command line                                *)
(***************************************************************************)
\* the exit status the loop over args.files ends with, from file i on,
\* with the results gathered so far
RECURSIVE LoopExit(_, _, _, _, _)
LoopExit(args, snippet_, builtin, i, res) ==
    IF i > Len(args.files)
    THEN IF all(res) THEN 0 ELSE 1
    ELSE LET file_path == args.files[i]
             d         == Dispatch(args, builtin)
         IN  IF d.exc # NoException THEN UncaughtExitStatus
             ELSE IF ~file_path.readable THEN 2
             ELSE IF ~file_path.decodable THEN UncaughtExitStatus
             ELSE LoopExit(args, snippet_, d.builtin, i + 1,
                           Append(res,
                                  CheckCall(args, d, snippet_, file_path)))

\* the exit status of main() run on the command line args
MainExit(args) ==
    IF args.help THEN 0
    ELSE IF \/ args.content_file = "absent"
            \/ args.snippet_option # "--content-file"
            \/ args.files = <<>>
    THEN 2
    ELSE IF args.content_file = "unreadable" THEN 2
    ELSE IF args.content_file = "undecodable" THEN UncaughtExitStatus
    ELSE LoopExit(args, args.snippet_text, BuiltinLiteral, 1, <<>>)

\* every run of main() ends with the status MainExit gives its command line
MainExitIsExitCode == pc = "exited" => exit_code = MainExit(argv)

\* the orders a list of n files can be given in
FileOrders(n) ==
    {p \in [1..n -> 1..n] : \A i, j \in 1..n : p[i] = p[j] => i = j}

Permute(files, p) == [i \in 1..Len(files) |-> files[p[i]]]

Undecodable(i) == argv.files[i].readable /\ ~argv.files[i].decodable

(***************************************************************************)
(* C16: the outcome does not depend on the order of the target files: a    *)
(* run of main that has exited did so with the exit code main gives for    *)
(* the same snippet and options on every permutation of its file list.     *)
(***************************************************************************)
C16_OrderIndependent ==
    pc = "exited" =>
        \A p \in FileOrders(Len(argv.files)) :
            MainExit([argv EXCEPT !.files = Permute(argv.files, p)])
                = exit_code

\* what holds in the place of C16: the order matters only between a file
\* that cannot be opened and a file that opens but is not text
OrderIndependentOfText ==
    (/\ pc = "exited"
     /\ ~(\E i, j \in 1..Len(argv.files) :
              ~argv.files[i].readable /\ Undecodable(j))) =>
        \A p \in FileOrders(Len(argv.files)) :
            MainExit([argv EXCEPT !.files = Permute(argv.files, p)])
                = exit_code


\* a run that gives only the snippet path and the target files
PlainRun ==
    /\ ~argv.help
    /\ IsNone(argv.comment_prefix)
    /\ ~argv.infer_comment_prefix
    /\ IsNone(argv.comment_prefix_map)
    /\ argv.files # <<>>

AllText ==
    \A i \in 1..Len(argv.files) :
        argv.files[i].readable /\ argv.files[i].decodable

(***************************************************************************)
(* C17: the snippet path is accepted through --snippet-file: a run that    *)
(* gives --snippet-file <snippet> and target files exits 0 when every      *)
(* target contains the snippet, 1 when one does not, and 2 when the        *)
(* snippet file cannot be read; a run without the snippet path exits 2.    *)
(***************************************************************************)
C17_SnippetFileOption ==
    (pc = "exited" /\ PlainRun) =>
        /\ argv.content_file = "absent" => exit_code = 2
        /\ argv.snippet_option = "--snippet-file" =>
               /\ argv.content_file = "unreadable" => exit_code = 2
               /\ (argv.content_file = "readable" /\ AllText) =>
                      exit_code =
                          IF \A i \in 1..Len(argv.files) : Contains(i)
                          THEN 0 ELSE 1

\* the option main() defines is --content-file: with it the outcomes the
\* tests expect of --snippet-file are the outcomes of the run
ContentFileOption ==
    (pc = "exited" /\ PlainRun) =>
        /\ argv.content_file = "absent" => exit_code = 2
        /\ argv.snippet_option = "--content-file" =>
               /\ argv.content_file = "unreadable" => exit_code = 2
               /\ (argv.content_file = "readable" /\ AllText) =>
                      exit_code =
                          IF \A i \in 1..Len(argv.files) : Contains(i)
                          THEN 0 ELSE 1


\* the run builds its rule from the override map
RuleFromOverride ==
    /\ ~Truthy(argv.comment_prefix)
    /\ argv.infer_comment_prefix
    /\ Truthy(argv.comment_prefix_map)

C20_MapWithoutInferIgnored ==
    (/\ pc = "exited"
     /\ ~argv.infer_comment_prefix
     /\ IsNone(argv.comment_prefix)) =>
        /\ parses = 0
        /\ uncaught # ValueError
        /\ IsNone(prefix_map)
        /\ exit_code = MainExit([argv EXCEPT !.comment_prefix_map = None])
        /\ \A i \in 1..Len(results) :
               results[i] = check_file(snippet, argv.files[i], None, None)

\* a run given the malformed map ".txt" and no inference flag that checked
\* its files and found the snippet
C20_Witness ==
    /\ pc = "exited"
    /\ ~argv.infer_comment_prefix
    /\ IsNone(argv.comment_prefix)
    /\ argv.comment_prefix_map = Some(<<".", "t", "x", "t">>)
    /\ Len(results) = 2
    /\ exit_code = 0


(***************************************************************************)
(* SpecScan: commented_match run one loop step at a time.  frame holds the *)
(* locals of the call (indices 0-based as in the source), the content-line *)
(* indices read so far and the start offsets the bound check skipped.      *)
(***************************************************************************)
ScanSnippetLines == splitlines(inp.snippet)

ScanFileLines == splitlines(inp.content)

\* the test guarding the inner loop: the window [start_idx, start_idx + n)
\* lies within the m content lines
WindowFitsOffByOne(start_idx, n, m) == ~(start_idx + n > m + 1)

WindowFits(start_idx, n, m) == ~(start_idx + n > m)

ScanReturn(value) ==
    [frame EXCEPT !.pc = "returned", !.ret = value]

InitScan ==
    /\ inp \in TextInputs
    /\ call = NoCall
    /\ frame = NoFrame
    /\ MainIdle

\* the call and its two early returns
ScanEnter ==
    /\ frame.pc = "none"
    /\ LET f == [pc |-> "outer", start_idx |-> 0, offset |-> 0,
                 accessed |-> {}, skipped |-> {}, ret |-> FALSE,
                 exc |-> "none"]
       IN  frame' = IF ScanSnippetLines = <<>>
                    THEN [f EXCEPT !.pc = "returned", !.ret = TRUE]
                    ELSE IF ScanFileLines = <<>>
                    THEN [f EXCEPT !.pc = "returned", !.ret = FALSE]
                    ELSE f
    /\ UNCHANGED <<inp, call, mainVars>>

\* one step of for start_idx, file_line in enumerate(file_lines), up to the
\* start of the inner loop
ScanOuter ==
    /\ frame.pc = "outer"
    /\ LET n == Len(ScanSnippetLines)
           m == Len(ScanFileLines)
           i == frame.start_idx
           read == [frame EXCEPT !.accessed = @ \cup {i}]
       IN  frame' =
             IF i >= m THEN ScanReturn(FALSE)
             ELSE IF ~line_matches(ScanSnippetLines[1],
                                   ScanFileLines[i + 1], inp.prefix)
             THEN [read EXCEPT !.start_idx = i + 1]
             ELSE IF ~WindowFits(i, n, m)
             THEN [read EXCEPT !.start_idx = i + 1,
                               !.skipped = @ \cup {i}]
             ELSE [read EXCEPT !.pc = "inner", !.offset = 0]
    /\ UNCHANGED <<inp, call, mainVars>>

\* one step of for offset, snippet_line in enumerate(snippet_lines):
\* file_lines[start_idx + offset] raises IndexError past the last line
ScanInner ==
    /\ frame.pc = "inner"
    /\ LET n == Len(ScanSnippetLines)
           m == Len(ScanFileLines)
           k == frame.start_idx + frame.offset
       IN  frame' =
             IF frame.offset >= n THEN ScanReturn(TRUE)
             ELSE IF k >= m
             THEN [frame EXCEPT !.pc = "raised", !.exc = "IndexError"]
             ELSE IF ~line_matches(ScanSnippetLines[frame.offset + 1],
                                   ScanFileLines[k + 1], inp.prefix)
             THEN [frame EXCEPT !.accessed = @ \cup {k}, !.pc = "outer",
                                !.start_idx = @ + 1]
             ELSE [frame EXCEPT !.accessed = @ \cup {k}, !.offset = @ + 1]
    /\ UNCHANGED <<inp, call, mainVars>>

NextScan == ScanEnter \/ ScanOuter \/ ScanInner

SpecScan == InitScan /\ [][NextScan]_vars

(***************************************************************************)
(* C19: in the scan of commented_match every content line is read at an    *)
(* index in [0, m).  A start offset whose first line matches but whose     *)
(* window [i, i+n) runs past the end is skipped: no line past the last is  *)
(* read, no IndexError is raised, the offset never yields the match, and   *)
(* the scan goes on to the offsets that remain.                            *)
(***************************************************************************)
C19_ScanStaysInBounds ==
    frame.pc # "none" =>
        LET n == Len(ScanSnippetLines)
            m == Len(ScanFileLines)
        IN  /\ frame.exc = "none"
            /\ frame.pc # "raised"
            /\ frame.accessed \subseteq 0..(m - 1)
            /\ \A i \in frame.skipped :
                   /\ i + n > m
                   /\ line_matches(ScanSnippetLines[1], ScanFileLines[i + 1],
                                   inp.prefix)
                   /\ i < frame.start_idx
            /\ frame.pc = "inner" =>
                   /\ frame.start_idx + n <= m
                   /\ frame.start_idx \notin frame.skipped
            /\ (frame.pc = "returned" /\ frame.ret /\ n > 0) =>
                   /\ frame.start_idx + n <= m
                   /\ frame.skipped = {}
            /\ (frame.pc = "returned" /\ ~frame.ret /\ m > 0) =>
                   /\ frame.start_idx = m
                   /\ frame.accessed = 0..(m - 1)
            /\ frame.pc = "returned" =>
                   frame.ret = commented_match(inp.snippet, inp.content,
                                               inp.prefix)

\* a two-line snippet whose first line matches the last content line: the
\* offset was skipped and the scan ran to the end
C19_Witness ==
    /\ frame.pc = "returned"
    /\ Len(ScanSnippetLines) = 2
    /\ Len(ScanFileLines) = 3
    /\ frame.skipped = {2}
    /\ frame.accessed = {0, 1, 2}
    /\ ~frame.ret


\* s is not empty and does not end with a line boundary
Unterminated(s) == s # <<>> /\ s[Len(s)] \notin LineBreaks

(***************************************************************************)
(* C21: commented matching ignores one trailing line terminator on the     *)
(* snippet: for a non-empty snippet s that does not end with a line        *)
(* boundary, the result of commented_match on s is the result on s + "\n", *)
(* for every content and prefix, and both snippets split into the same     *)
(* lines.                                                                  *)
(***************************************************************************)
C21_TrailingTerminatorIgnored ==
    (/\ call.fn = "commented_match"
     /\ Unterminated(inp.snippet)) =>
        LET terminated == inp.snippet \o <<"\n">>
        IN  /\ splitlines(terminated) = splitlines(inp.snippet)
            /\ call.ret = commented_match(terminated, inp.content, inp.prefix)
            /\ \A p \in Prefixes :
                   commented_match(terminated, inp.content, p)
                       = commented_match(inp.snippet, inp.content, p)

\* the two-line snippet "a\nA" found in commented content: with the
\* terminator kept as a third, empty line it would not be
C21_Witness ==
    /\ call.fn = "commented_match"
    /\ inp.snippet = <<"a", "\n", "A">>
    /\ inp.content = <<"#", " ", "a", "\n", "#", "A">>
    /\ inp.prefix = <<"#">>
    /\ call.ret

====
